---- MODULE Spec2Model ----
(***************************************************************************)
(* Model of the market-data collection loop of cryptoTracker.py (main and  *)
(* send_email_alert) and of its Flask routes login, logout and dashboard.  *)
(* The exchange clients of the public package, the Elasticsearch client,   *)
(* the SQLAlchemy session and the SMTP transport are external: each call   *)
(* to them either returns or raises, chosen nondeterministically.          *)
(***************************************************************************)
EXTENDS Integers, Sequences, FiniteSets

\* ------------------------------------------------------------------------
\* Bounds of the model
\* ------------------------------------------------------------------------

\* Number of iterations of `while True` that are explored.
MaxCycles == 2

\* Number of iterations explored in the scenario of two stub exchanges.
ScenarioCycles == 3

\* ------------------------------------------------------------------------
\* Program constants
\* ------------------------------------------------------------------------

\* PRICE_THRESHOLD = float(os.getenv("PRICE_THRESHOLD", 50000))
PRICE_THRESHOLD == 50000

\* Default of MARKET_REFRESH_RATE = int(os.getenv("MARKET_REFRESH_RATE", 30))
DefaultRefreshRate == 30

\* sleep(10) in the except clause of the loop
RetryDelay == 10

\* Values MARKET_REFRESH_RATE is configured to (the environment decides).
RefreshRates == {1, DefaultRefreshRate}

\* Prices get_price can return: the threshold itself and the smallest price
\* above it (prices are counted in the smallest price step).
Prices == {PRICE_THRESHOLD, PRICE_THRESHOLD + 1}

\* A configuration the process runs in: the registered exchanges in
\* registration order (exchanges[e] is the `products` mapping of exchange e,
\* as the sequence of its items <<product, kibana_index>> in iteration
\* order), the prices the get_price of each exchange can return, whether
\* the Elasticsearch, exchange and database calls can raise, and the number
\* of iterations explored.
\* In FreeConfig the first product of exchange 2 shares the index of the
\* first product of exchange 1 and every call can raise.
FreeConfig ==
    [exchanges |-> << << <<1, 1>>, <<2, 2>> >>, << <<1, 1>> >> >>,
     prices    |-> << Prices, Prices >>,
     failures  |-> TRUE,
     cycles    |-> MaxCycles]

\* Two exchanges of one product each, the first always returning 100, the
\* second always 60000, no call raising.
ScenarioConfig ==
    [exchanges |-> << << <<1, 1>> >>, << <<1, 2>> >> >>,
     prices    |-> << {100}, {60000} >>,
     failures  |-> FALSE,
     cycles    |-> ScenarioCycles]

Configs == {FreeConfig, ScenarioConfig}

VARIABLE config   \* the configuration, fixed when the process starts

\* The web application: one client's session and the User table.
VARIABLES
    session,      \* session['username'] of the client, NoUser when absent
    users,        \* the rows of User, as <<username, password>>
    lastReq,      \* the latest request of the client
    lastResp      \* the response to it

web == <<session, users, lastReq, lastResp>>

exchanges == config.exchanges

ExchangeIds == 1..Len(exchanges)

products(e) == exchanges[e]

ProductOf(e, i) == products(e)[i][1]

IndexOf(e, i) == products(e)[i][2]

\* All (exchange, position of the product) pairs.
Pairs == UNION {{<<e, i>> : i \in 1..Len(products(e))} : e \in ExchangeIds}

Indices == {IndexOf(q[1], q[2]) : q \in Pairs}

\* Indices that may exist in Elasticsearch before the process starts.
PreExisting == {1}

VARIABLES
    pc,           \* position of main: provision, sleep, ticker, fetch, store, alert, crashed
    ei,           \* position of `for exchange in exchanges`
    pi,           \* position of `for product in exchange.products`
    price,        \* the local `price` of the loop body (0: unset)
    esIndices,    \* the indices that exist in Elasticsearch
    store,        \* the committed MarketData rows, in id order
    alerts,       \* the calls of send_email_alert made so far
    lastSend,     \* outcome of the latest send_email_alert: none, sent, failed
    refreshRate,  \* MARKET_REFRESH_RATE
    now,          \* the time, advanced by sleep
    cycle,        \* iterations of `while True` begun
    tickerIn,     \* per exchange, the latest cycle that called its record_ticker
    fetchedIn,    \* per pair, the latest cycle that called get_price for it
    lastError,    \* the exception caught in the current cycle, if any
    stats         \* counts of the calls made and of their failures

collector == <<config, pc, ei, pi, price, esIndices, store, alerts, lastSend,
               refreshRate, now, cycle, tickerIn, fetchedIn, lastError, stats>>

vars == <<collector, web>>

NoError == [kind |-> "none", exchange |-> 0, pos |-> 0, at |-> 0]

NoUser == "<none>"

NoRequest == [route |-> "none", method |-> "none", username |-> NoUser,
              password |-> NoUser]

NoResponse == [kind |-> "none", target |-> "none", data |-> <<>>]

\* main just called, nothing provisioned or collected yet.
CollectorInit ==
    /\ config \in Configs
    /\ pc = "provision"
    /\ ei = 1
    /\ pi = 1
    /\ price = 0
    /\ esIndices \in SUBSET PreExisting
    /\ store = <<>>
    /\ alerts = <<>>
    /\ lastSend = "none"
    /\ refreshRate \in RefreshRates
    /\ now = 0
    /\ cycle = 0
    /\ tickerIn = [e \in ExchangeIds |-> 0]
    /\ fetchedIn = [q \in Pairs |-> 0]
    /\ lastError = NoError
    /\ stats = [fetches    |-> 0,
                fetchOks   |-> [e \in ExchangeIds |-> 0],
                fetchFails |-> [e \in ExchangeIds |-> 0],
                tickerFails |-> 0,
                storeFails |-> 0,
                creates    |-> 0,
                collectAt  |-> 0,
                prevErrorAt |-> -1,
                startupErrors |-> 0,
                createdBy  |-> [x \in Indices |-> 0],
                preExisting |-> esIndices]

\* The process that runs main: app.run comes after main() and main does not
\* return, so this process serves no request.
Init ==
    /\ CollectorInit
    /\ session = NoUser
    /\ users = {}
    /\ lastReq = NoRequest
    /\ lastResp = NoResponse

\* ------------------------------------------------------------------------
\* Startup: for exchange in exchanges / for product, kibana_index in
\* exchange.products.items()
\* ------------------------------------------------------------------------

LastPair(e, i) == e = Len(exchanges) /\ i = Len(products(e))

\* The inner loop left after its first product.
NextPairLeavesExchange(e, i) == <<e + 1, 1>>

\* The pair the nested for loops visit after <<e, i>>.
NextPair(e, i) == IF i < Len(products(e)) THEN <<e, i + 1>> ELSE <<e + 1, 1>>

\* The existence test left out: the index is created unconditionally.
NeedsCreateAlways(idx, existing) == TRUE

\* The existence test inverted: create only what exists already.
NeedsCreateInverted(idx, existing) == idx \in existing

\* if not es.indices.exists(index=kibana_index)
NeedsCreate(idx, existing) == idx \notin existing

\* The startup loop moves on; after its last pair main reaches `while True`.
ProvisionAdvance ==
    IF LastPair(ei, pi)
    THEN /\ pc' = "sleep"
         /\ ei' = 1
         /\ pi' = 1
    ELSE /\ pc' = "provision"
         /\ ei' = NextPair(ei, pi)[1]
         /\ pi' = NextPair(ei, pi)[2]

\* The index exists: nothing is created.
ProvisionExisting ==
    /\ UNCHANGED <<config, web>>
    /\ pc = "provision"
    /\ ~NeedsCreate(IndexOf(ei, pi), esIndices)
    /\ ProvisionAdvance
    /\ UNCHANGED <<price, esIndices, store, alerts, lastSend, refreshRate, now,
                   cycle, tickerIn, fetchedIn, lastError, stats>>

\* The index is absent: es.indices.create(index=kibana_index) creates it.
ProvisionCreate ==
    /\ UNCHANGED <<config, web>>
    /\ pc = "provision"
    /\ NeedsCreate(IndexOf(ei, pi), esIndices)
    /\ esIndices' = esIndices \cup {IndexOf(ei, pi)}
    /\ stats' = [stats EXCEPT !.creates = @ + 1,
                              !.createdBy[IndexOf(ei, pi)] = @ + 1]
    /\ ProvisionAdvance
    /\ UNCHANGED <<price, store, alerts, lastSend, refreshRate, now, cycle,
                   tickerIn, fetchedIn, lastError>>

\* The startup loop wrapped in a handler that logs and goes on.
OnStartupErrorLogged(e, i) == "provision"

\* Where an exception raised in the startup loop for the pair <<e, i>> takes
\* main: no try statement encloses the loop, main ends with the exception.
OnStartupError(e, i) == "crashed"

\* es.indices.exists or es.indices.create raises.
ProvisionFail ==
    /\ UNCHANGED <<config, web>>
    /\ pc = "provision"
    /\ config.failures
    /\ IF OnStartupError(ei, pi) = "crashed"
       THEN /\ pc' = "crashed"
            /\ UNCHANGED <<ei, pi>>
       ELSE ProvisionAdvance
    /\ stats' = [stats EXCEPT !.startupErrors = @ + 1]
    /\ UNCHANGED <<price, esIndices, store, alerts, lastSend, refreshRate, now,
                   cycle, tickerIn, fetchedIn, lastError>>

\* ------------------------------------------------------------------------
\* The loop: while True
\* ------------------------------------------------------------------------

\* The sleep placed at the end of the loop body: the first iteration, at
\* time 0, collects at once.
WakeTimeFirstAtOnce(t, rate, afterError) == IF t = 0 THEN t ELSE t + rate

\* The retry delay taken instead of the interval: after an error the loop
\* does not sleep again before it collects.
WakeTimeSkipsAfterError(t, rate, afterError) == IF afterError THEN t ELSE t + rate

\* The time at which sleep(MARKET_REFRESH_RATE) at the top of the loop
\* returns; afterError tells whether the previous iteration ended in the
\* except clause.
WakeTime(t, rate, afterError) == t + rate

\* sleep(MARKET_REFRESH_RATE), then the try block is entered and the first
\* exchange is taken.
Sleep ==
    /\ UNCHANGED <<config, web>>
    /\ pc = "sleep"
    /\ cycle < config.cycles
    /\ now' = WakeTime(now, refreshRate, lastError.kind # "none")
    /\ cycle' = cycle + 1
    /\ pc' = "ticker"
    /\ ei' = 1
    /\ pi' = 1
    /\ stats' = [stats EXCEPT !.collectAt = now',
                              !.prevErrorAt = IF lastError.kind # "none"
                                              THEN lastError.at ELSE -1]
    /\ lastError' = NoError
    /\ UNCHANGED <<price, esIndices, store, alerts, lastSend, refreshRate,
                   tickerIn, fetchedIn>>

\* A failed ticker push caught next to the call: main goes on with the
\* products of the exchange.
HandlerResumesAfterTicker(kind) == IF kind = "ticker" THEN "fetch" ELSE "sleep"

\* A failed store write swallowed next to the commit: main goes on to the
\* alert evaluation of the same price.
HandlerSwallowsStore(kind) == IF kind = "store" THEN "alert" ELSE "sleep"

\* An except clause that does not cover the exchange client's exception: it
\* leaves main.
HandlerMissesFetch(kind) == IF kind = "fetch" THEN "crashed" ELSE "sleep"

\* Where an exception raised inside the try block takes main: the except
\* clause, which logs, sleeps and falls through to the next iteration.
Handler(kind) == "sleep"

\* except Exception as e: logging.error(...); sleep(10)
Raise(kind) ==
    /\ pc' = Handler(kind)
    /\ now' = now + RetryDelay
    /\ lastError' = [kind |-> kind, exchange |-> ei, pos |-> pi, at |-> now]
    /\ UNCHANGED <<ei, pi, esIndices, alerts, lastSend, refreshRate, cycle>>

\* exchange.record_ticker(es) returns.
RecordTickerOk ==
    /\ UNCHANGED <<config, web>>
    /\ pc = "ticker"
    /\ tickerIn' = [tickerIn EXCEPT ![ei] = cycle]
    /\ pc' = "fetch"
    /\ pi' = 1
    /\ UNCHANGED <<ei, price, esIndices, store, alerts, lastSend, refreshRate,
                   now, cycle, fetchedIn, lastError, stats>>

\* exchange.record_ticker(es) raises.
RecordTickerFail ==
    /\ UNCHANGED <<config, web>>
    /\ pc = "ticker"
    /\ config.failures
    /\ tickerIn' = [tickerIn EXCEPT ![ei] = cycle]
    /\ stats' = [stats EXCEPT !.tickerFails = @ + 1]
    /\ Raise("ticker")
    /\ UNCHANGED <<price, store, fetchedIn>>

\* price = exchange.get_price(product) returns a price.
GetPriceOk ==
    /\ UNCHANGED <<config, web>>
    /\ pc = "fetch"
    /\ \E p \in config.prices[ei] : price' = p
    /\ fetchedIn' = [fetchedIn EXCEPT ![<<ei, pi>>] = cycle]
    /\ stats' = [stats EXCEPT !.fetches = @ + 1, !.fetchOks[ei] = @ + 1]
    /\ pc' = "store"
    /\ UNCHANGED <<ei, pi, esIndices, store, alerts, lastSend, refreshRate, now,
                   cycle, tickerIn, lastError>>

\* exchange.get_price(product) raises.
GetPriceFail ==
    /\ UNCHANGED <<config, web>>
    /\ pc = "fetch"
    /\ config.failures
    /\ fetchedIn' = [fetchedIn EXCEPT ![<<ei, pi>>] = cycle]
    /\ stats' = [stats EXCEPT !.fetches = @ + 1, !.fetchFails[ei] = @ + 1]
    /\ Raise("fetch")
    /\ UNCHANGED <<price, store, tickerIn>>

\* new_data = MarketData(exchange=..., product=..., price=price): the row the
\* commit inserts.  id is the auto-increment key, timestamp the column
\* default; fetch is the serial number of the get_price call it comes from.
MarketData(rows, e, i, p, t, n) ==
    [id |-> Len(rows) + 1, exchange |-> e, product |-> ProductOf(e, i),
     price |-> p, timestamp |-> t, fetch |-> n]

\* The new row merged over the latest row instead of added.
CommitOverwritesLast(rows, row) ==
    IF rows = <<>> THEN <<row>>
    ELSE [rows EXCEPT ![Len(rows)] = [row EXCEPT !.id = Len(rows)]]

\* The row added to the session and never committed.
CommitDropped(rows, row) == rows

\* db.session.add(new_data); db.session.commit()
Commit(rows, row) == Append(rows, row)

\* The commit returns: the row is in the table.
StoreOk ==
    /\ UNCHANGED <<config, web>>
    /\ pc = "store"
    /\ store' = Commit(store, MarketData(store, ei, pi, price, now, stats.fetches))
    /\ pc' = "alert"
    /\ UNCHANGED <<ei, pi, price, esIndices, alerts, lastSend, refreshRate, now,
                   cycle, tickerIn, fetchedIn, lastError, stats>>

\* db.session.add or db.session.commit raises: no row is written.
StoreFail ==
    /\ UNCHANGED <<config, web>>
    /\ pc = "store"
    /\ config.failures
    /\ stats' = [stats EXCEPT !.storeFails = @ + 1]
    /\ Raise("store")
    /\ UNCHANGED <<price, store, tickerIn, fetchedIn>>

\* The comparison turned around.
ShouldAlertBelow(p) == p < PRICE_THRESHOLD

\* The comparison made non-strict.
ShouldAlertAtOrAbove(p) == p >= PRICE_THRESHOLD

\* if price > PRICE_THRESHOLD
ShouldAlert(p) == p > PRICE_THRESHOLD

\* The for loops move on after a product; after the last product of the last
\* exchange the try block ends without an exception.
LoopAdvance ==
    IF LastPair(ei, pi)
    THEN /\ pc' = "sleep"
         /\ UNCHANGED <<ei, pi>>
    ELSE /\ pc' = IF pi < Len(products(ei)) THEN "fetch" ELSE "ticker"
         /\ ei' = NextPair(ei, pi)[1]
         /\ pi' = NextPair(ei, pi)[2]

\* The call send_email_alert(subject, body) for the current price.
AlertEvent == [exchange |-> ei, product |-> ProductOf(ei, pi), price |-> price,
               fetch |-> stats.fetches]

\* The price is not above the threshold: no alert.
NoAlert ==
    /\ UNCHANGED <<config, web>>
    /\ pc = "alert"
    /\ ~ShouldAlert(price)
    /\ LoopAdvance
    /\ UNCHANGED <<price, esIndices, store, alerts, lastSend, refreshRate, now,
                   cycle, tickerIn, fetchedIn, lastError, stats>>

\* send_email_alert is called and the mail is sent.
AlertSent ==
    /\ UNCHANGED <<config, web>>
    /\ pc = "alert"
    /\ ShouldAlert(price)
    /\ alerts' = Append(alerts, AlertEvent)
    /\ lastSend' = "sent"
    /\ LoopAdvance
    /\ UNCHANGED <<price, esIndices, store, refreshRate, now, cycle, tickerIn,
                   fetchedIn, lastError, stats>>

\* send_email_alert without its try statement: the transport's exception
\* reaches the except clause of the loop.
AlertSendFailEscapes ==
    /\ UNCHANGED <<config, web>>
    /\ pc = "alert"
    /\ ShouldAlert(price)
    /\ alerts' = Append(alerts, AlertEvent)
    /\ lastSend' = "failed"
    /\ pc' = "sleep"
    /\ now' = now + RetryDelay
    /\ lastError' = [kind |-> "notify", exchange |-> ei, pos |-> pi, at |-> now]
    /\ UNCHANGED <<ei, pi, price, esIndices, store, refreshRate, cycle, tickerIn,
                   fetchedIn, stats>>

\* send_email_alert is called and the transport raises: its own
\* except Exception logs the failure and the function returns.
AlertSendFail ==
    /\ UNCHANGED <<config, web>>
    /\ pc = "alert"
    /\ ShouldAlert(price)
    /\ alerts' = Append(alerts, AlertEvent)
    /\ lastSend' = "failed"
    /\ LoopAdvance
    /\ UNCHANGED <<price, esIndices, store, refreshRate, now, cycle, tickerIn,
                   fetchedIn, lastError, stats>>

Next ==
    \/ ProvisionExisting
    \/ ProvisionCreate
    \/ ProvisionFail
    \/ Sleep
    \/ RecordTickerOk
    \/ RecordTickerFail
    \/ GetPriceOk
    \/ GetPriceFail
    \/ StoreOk
    \/ StoreFail
    \/ NoAlert
    \/ AlertSent
    \/ AlertSendFail

Spec == Init /\ [][Next]_vars

\* main is a running process: whenever it can take a step it eventually does.
FairSpec == Spec /\ WF_vars(Next)

\* ------------------------------------------------------------------------
\* The Flask routes /login, /logout and /dashboard, served by a process
\* that does not run main
\* ------------------------------------------------------------------------

Usernames == {"alice", "bob"}

Passwords == {"pw1", "pw2"}

\* What a client can type into the login form.
FormNames == Usernames \cup {"mallory"}

\* The contents of User: username is unique.
UserTables ==
    {t \in SUBSET (Usernames \X Passwords) :
        \A r1, r2 \in t : r1[1] = r2[1] => r1 = r2}

Response(kind, target, data) == [kind |-> kind, target |-> target, data |-> data]

\* Any row with the username, whatever its password.
AuthenticateByName(u, p, table) == \E r \in table : r[1] = u

\* User.query.filter_by(username=username, password=password).first()
Authenticate(u, p, table) == <<u, p>> \in table

WebInit ==
    /\ CollectorInit
    /\ session = NoUser
    /\ users \in UserTables
    /\ lastReq = NoRequest
    /\ lastResp = NoResponse

\* GET /login: the form is rendered.
LoginGet ==
    /\ lastReq' = [route |-> "login", method |-> "GET", username |-> NoUser,
                   password |-> NoUser]
    /\ lastResp' = Response("page", "login.html", <<>>)
    /\ UNCHANGED <<session, users, collector>>

\* POST /login with a username and a password.
LoginPost ==
    /\ \E u \in FormNames, p \in Passwords :
          /\ lastReq' = [route |-> "login", method |-> "POST", username |-> u,
                         password |-> p]
          /\ IF Authenticate(u, p, users)
             THEN /\ session' = u
                  /\ lastResp' = Response("redirect", "dashboard", <<>>)
             ELSE /\ session' = session
                  /\ lastResp' = Response("text", "Invalid credentials", <<>>)
    /\ UNCHANGED <<users, collector>>

\* GET /logout: session.pop('username', None)
Logout ==
    /\ lastReq' = [route |-> "logout", method |-> "GET", username |-> NoUser,
                   password |-> NoUser]
    /\ session' = NoUser
    /\ lastResp' = Response("redirect", "index", <<>>)
    /\ UNCHANGED <<users, collector>>

\* GET /dashboard
Dashboard ==
    /\ lastReq' = [route |-> "dashboard", method |-> "GET", username |-> NoUser,
                   password |-> NoUser]
    /\ lastResp' = IF session = NoUser
                   THEN Response("redirect", "login", <<>>)
                   ELSE Response("page", "dashboard.html", store)
    /\ UNCHANGED <<session, users, collector>>

WebNext ==
    \/ LoginGet
    \/ LoginPost
    \/ Logout
    \/ Dashboard

WebSpec == WebInit /\ [][WebNext]_vars

\* ------------------------------------------------------------------------
\* Properties
\* ------------------------------------------------------------------------

RECURSIVE SumOver(_, _)
\* The sum of f[x] over the x in S.
SumOver(f, S) ==
    IF S = {} THEN 0
    ELSE LET x == CHOOSE y \in S : TRUE IN f[x] + SumOver(f, S \ {x})

\* An iteration of the loop has ended (its try block completed or was left
\* through the except clause) and the next one has not begun.
CycleEnded == pc = "sleep" /\ cycle >= 1

\* main has reached `while True` and has not ended.
LoopEntered == pc \notin {"provision", "crashed"}

RowsOf(e) == {i \in DOMAIN store : store[i].exchange = e}

\* C1: at the end of every cycle every registered exchange has been polled in
\* that cycle (its record_ticker was called), whether or not an exchange
\* registered before it failed in the cycle.
C1_EveryExchangePolled ==
    CycleEnded => \A e \in ExchangeIds : tickerIn[e] = cycle

\* C2: if get_price of exchange a has always failed, get_price of exchange b
\* has always succeeded and neither the store nor a ticker push has failed,
\* then after N cycles the store holds exactly N * |b.products| rows, none of
\* them from a, and main has not ended with an exception; for either
\* registration order of a and b.
C2_Isolation ==
    \A a, b \in ExchangeIds :
        ( /\ a # b
          /\ CycleEnded
          /\ stats.fetchOks[a] = 0
          /\ stats.fetchFails[b] = 0
          /\ stats.storeFails = 0
          /\ stats.tickerFails = 0 )
        => /\ Len(store) = cycle * Len(products(b))
           /\ RowsOf(a) = {}
           /\ pc # "crashed"

\* C3 as stated: whenever no store write is in flight, the number of rows is
\* at most the number of get_price calls and equals the number of get_price
\* calls that returned.
C3_RowsEqualSuccessfulFetches ==
    pc # "store" =>
        /\ Len(store) <= stats.fetches
        /\ Len(store) = SumOver(stats.fetchOks, ExchangeIds)

\* C3 amended: the number of rows is at most the number of get_price calls
\* and equals the number of get_price calls that returned minus those whose
\* store write failed (or is still in flight); every row comes from a
\* get_price call of its own that was made, and a failed get_price adds none.
C3_RowsEqualCommittedFetches ==
    /\ Len(store) <= stats.fetches
    /\ Len(store) + stats.storeFails + (IF pc = "store" THEN 1 ELSE 0)
         = SumOver(stats.fetchOks, ExchangeIds)
    /\ stats.fetches = SumOver(stats.fetchOks, ExchangeIds)
                         + SumOver(stats.fetchFails, ExchangeIds)
    /\ \A i \in DOMAIN store : store[i].fetch \in 1..stats.fetches
    /\ \A i, j \in DOMAIN store : store[i].fetch = store[j].fetch => i = j
    /\ (lastError.kind = "fetch" /\ pc = "sleep")
          => \A i \in DOMAIN store : store[i].fetch # stats.fetches

C3_Witness ==
    /\ stats.storeFails > 0
    /\ SumOver(stats.fetchFails, ExchangeIds) > 0
    /\ Len(store) > 0
    /\ CycleEnded

\* C4: every alert raised so far has a committed row of the same fetch, with
\* the same exchange, product and price; a fetch whose store write failed has
\* no alert.
C4_AlertOnlyAfterCommit ==
    /\ \A k \in DOMAIN alerts :
          \E i \in DOMAIN store :
              /\ store[i].fetch = alerts[k].fetch
              /\ store[i].exchange = alerts[k].exchange
              /\ store[i].product = alerts[k].product
              /\ store[i].price = alerts[k].price
    /\ (lastError.kind = "store" /\ pc = "sleep")
          => \A k \in DOMAIN alerts : alerts[k].fetch # stats.fetches

\* A store write failed for a price above the threshold, and another fetch
\* has raised an alert.
C4_Witness ==
    /\ lastError.kind = "store"
    /\ pc = "sleep"
    /\ price > PRICE_THRESHOLD
    /\ Len(alerts) > 0

\* C5: when the record_ticker of an exchange failed in a cycle, every product
\* of that exchange has still been fetched by the end of that cycle.
C5_TickerFailureKeepsCollecting ==
    (CycleEnded /\ lastError.kind = "ticker")
        => \A i \in 1..Len(products(lastError.exchange)) :
               fetchedIn[<<lastError.exchange, i>>] = cycle

\* C6: every committed row whose alert evaluation is over has exactly one
\* alert if its price is above the threshold and none if its price is equal
\* to or below it, also when an earlier cycle already raised an alert for the
\* same exchange and product.
C6_StrictThresholdNoDedup ==
    \A i \in DOMAIN store :
        \/ (pc = "alert" /\ i = Len(store))
        \/ Cardinality({k \in DOMAIN alerts : alerts[k].fetch = store[i].fetch})
             = IF store[i].price > PRICE_THRESHOLD THEN 1 ELSE 0

\* Two alerts of different cycles for the same exchange and product, and a
\* row at exactly the threshold, all evaluated.
C6_Witness ==
    /\ pc # "alert"
    /\ \E i \in DOMAIN store : store[i].price = PRICE_THRESHOLD
    /\ \E i \in DOMAIN store : store[i].price = PRICE_THRESHOLD + 1
    /\ \E k, l \in DOMAIN alerts :
          /\ k < l
          /\ alerts[k].exchange = alerts[l].exchange
          /\ alerts[k].product = alerts[l].product

\* C7: once the loop is entered main never leaves it, and (as long as the
\* bound on the cycles allows one) a next cycle eventually begins, whatever
\* failed before.
C7_LoopKeepsRunning ==
    /\ [][LoopEntered => LoopEntered']_vars
    /\ \A n \in 0..(MaxCycles - 1) :
          (LoopEntered /\ cycle = n) ~> (pc = "ticker" /\ cycle = n + 1)

\* A cycle has begun after a cycle that ended in the except clause, and an
\* alert delivery has failed.
C7_Witness ==
    /\ pc = "ticker"
    /\ cycle >= 2
    /\ stats.prevErrorAt >= 0
    /\ lastSend = "failed"

\* C8: when get_price failed for a product in a cycle, no row is written for
\* it and the remaining products of the exchange have still been fetched by
\* the end of that cycle.
C8_FetchFailureSkipsOneProduct ==
    (CycleEnded /\ lastError.kind = "fetch")
        => /\ \A i \in DOMAIN store : store[i].fetch # stats.fetches
           /\ \A i \in 1..Len(products(lastError.exchange)) :
                  i > lastError.pos
                      => fetchedIn[<<lastError.exchange, i>>] = cycle

C10_ProvisionedBeforeCollection ==
    /\ \A i \in DOMAIN store :
          \E q \in Pairs :
              /\ q[1] = store[i].exchange
              /\ ProductOf(q[1], q[2]) = store[i].product
              /\ IndexOf(q[1], q[2]) \in esIndices
    /\ LoopEntered => Indices \subseteq esIndices
    /\ pc = "provision" => (cycle = 0 /\ store = <<>> /\ stats.fetches = 0)

\* A row has been committed after startup created an index.
C10_Witness ==
    /\ Len(store) > 0
    /\ stats.creates > 0

\* C11: once an index existence check or creation has failed at startup,
\* main has ended without entering the loop: no cycle, ticker push, fetch,
\* row or alert exists, in that state and ever after; and nothing but a
\* startup failure ends main.
C11_ProvisioningFailureIsFatal ==
    /\ stats.startupErrors > 0 =>
          /\ pc = "crashed"
          /\ cycle = 0
          /\ store = <<>>
          /\ alerts = <<>>
          /\ stats.fetches = 0
          /\ \A e \in ExchangeIds : tickerIn[e] = 0
    /\ pc = "crashed" => stats.startupErrors = 1

\* Startup failed after it had created an index for an earlier pair.
C11_Witness ==
    /\ pc = "crashed"
    /\ stats.startupErrors > 0
    /\ stats.creates > 0

\* C12: es.indices.create is called at most once for an index id, also when
\* two pairs map to it, and never for an index that existed before; an
\* index that was created exists, and once startup is over the indices are
\* exactly those that existed before and those of the registered pairs,
\* each of the latter created once if it was absent.
C12_ProvisioningIdempotent ==
    /\ \A x \in Indices :
          /\ stats.createdBy[x] <= 1
          /\ x \in stats.preExisting => stats.createdBy[x] = 0
          /\ stats.createdBy[x] = 1 => x \in esIndices
    /\ stats.creates = Cardinality(esIndices \ stats.preExisting)
    /\ LoopEntered =>
          /\ esIndices = stats.preExisting \cup Indices
          /\ \A x \in Indices \ stats.preExisting : stats.createdBy[x] = 1

\* Startup is over; the index shared by two pairs was absent and has been
\* created by the first of them only.
C12_Witness ==
    /\ LoopEntered
    /\ \E q, r \in Pairs :
          /\ q # r
          /\ IndexOf(q[1], q[2]) = IndexOf(r[1], r[2])
          /\ IndexOf(q[1], q[2]) \notin stats.preExisting
          /\ stats.createdBy[IndexOf(q[1], q[2])] = 1

\* C13: a step in which send_email_alert fails keeps the row that triggered
\* it, adds no time (no cooldown), records no error, and moves main to the
\* next product, the next exchange or the end of the cycle, exactly where a
\* successful delivery moves it.
C13_DeliveryFailureNotFatal ==
    [][ (pc = "alert" /\ lastSend' = "failed" /\ Len(alerts') = Len(alerts) + 1)
          => /\ store' = store
             /\ Len(store) >= 1
             /\ store[Len(store)].fetch = alerts'[Len(alerts')].fetch
             /\ now' = now
             /\ cycle' = cycle
             /\ lastError' = NoError
             /\ IF LastPair(ei, pi)
                THEN pc' = "sleep"
                ELSE /\ <<ei', pi'>> = NextPair(ei, pi)
                     /\ pc' = IF pi < Len(products(ei)) THEN "fetch" ELSE "ticker"
      ]_vars

\* The delivery for the first product of an exchange failed, its row is the
\* last of the store and main is about to fetch the second product.
C13_Witness ==
    /\ lastSend = "failed"
    /\ pc = "fetch"
    /\ pi = 2
    /\ lastError = NoError
    /\ Len(store) >= 1
    /\ Len(alerts) >= 1
    /\ store[Len(store)].fetch = alerts[Len(alerts)].fetch

\* C14: in the scenario of two exchanges of one product each, the first
\* always returning 100 and the second 60000, with threshold 50000 and no
\* failing call, the store holds after N cycles N rows of each exchange and
\* N alerts have been raised, all of them for exchange 2; after 3 cycles
\* that is 6 rows and 3 alerts.
C14_Scenario ==
    (config = ScenarioConfig /\ CycleEnded) =>
        /\ Len(store) = 2 * cycle
        /\ Cardinality(RowsOf(1)) = cycle
        /\ Cardinality(RowsOf(2)) = cycle
        /\ \A i \in RowsOf(1) : store[i].price = 100
        /\ \A i \in RowsOf(2) : store[i].price = 60000
        /\ Len(alerts) = cycle
        /\ \A k \in DOMAIN alerts : alerts[k].exchange = 2
        /\ cycle = 3 => (Len(store) = 6 /\ Len(alerts) = 3)
        /\ PRICE_THRESHOLD = 50000

\* The third cycle of the scenario has ended.
C14_Witness ==
    /\ config = ScenarioConfig
    /\ CycleEnded
    /\ cycle = 3
    /\ Len(store) = 6
    /\ Len(alerts) = 3

\* main is inside the try block of an iteration.
Collecting == pc \in {"ticker", "fetch", "store", "alert"}

\* The pair q comes before <<e, i>> in registration and iteration order.
Before(q, e, i) == q[1] < e \/ (q[1] = e /\ q[2] < i)

\* C15: a cycle begins only when the one before it has ended (completed or
\* left through the except clause) and cycles are numbered consecutively;
\* inside a cycle the pairs fetched so far are exactly those before the
\* current position in registration order, the ticker of an exchange has
\* been pushed before any of its products is fetched, and when the next
\* product is about to be fetched the row of the previous one is committed.
C15_CyclesOrdered ==
    /\ [][cycle' # cycle =>
            (pc = "sleep" /\ cycle' = cycle + 1 /\ pc' = "ticker" /\ ei' = 1)]_vars
    /\ [](Collecting =>
            /\ \A q \in Pairs :
                  /\ Before(q, ei, pi) => fetchedIn[q] = cycle
                  /\ Before(<<ei, pi>>, q[1], q[2]) => fetchedIn[q] < cycle
            /\ (fetchedIn[<<ei, pi>>] = cycle) <=> (pc \in {"store", "alert"})
            /\ \A e \in ExchangeIds :
                  /\ e < ei => tickerIn[e] = cycle
                  /\ e > ei => tickerIn[e] < cycle
            /\ (tickerIn[ei] = cycle) <=> (pc # "ticker"))
    /\ [](\A q \in Pairs :
            (cycle >= 1 /\ fetchedIn[q] = cycle) => tickerIn[q[1]] = cycle)
    /\ []((pc = "fetch" /\ pi > 1) =>
            /\ Len(store) >= 1
            /\ store[Len(store)].fetch = stats.fetches
            /\ store[Len(store)].exchange = ei
            /\ store[Len(store)].product = ProductOf(ei, pi - 1))
    /\ []((pc = "ticker" /\ ei > 1) =>
            /\ Len(store) >= 1
            /\ store[Len(store)].fetch = stats.fetches
            /\ store[Len(store)].exchange = ei - 1)
    /\ [](\A i, j \in DOMAIN store : i < j => store[i].fetch < store[j].fetch)

\* In the second cycle the first exchange is done and the first product of
\* the second exchange is about to be fetched.
C15_Witness ==
    /\ config = FreeConfig
    /\ pc = "fetch"
    /\ ei = 2
    /\ cycle = 2
    /\ fetchedIn[<<1, 2>>] = 2

\* C16: every step of main, the failing ones and the except clause
\* included, leaves every row written before present and unchanged: the
\* store before the step is a prefix of the store after it, and the ids are
\* the positions.
C16_StoreAppendOnly ==
    /\ [][ /\ Len(store') >= Len(store)
           /\ SubSeq(store', 1, Len(store)) = store
           /\ (lastError' # lastError /\ lastError'.kind # "none") => store' = store
        ]_vars
    /\ [](\A i \in DOMAIN store : store[i].id = i)

\* A store write has failed in a cycle after rows of two cycles were
\* written.
C16_Witness ==
    /\ pc = "sleep"
    /\ lastError.kind = "store"
    /\ cycle = 2
    /\ Len(store) >= 2
    /\ store[1].timestamp < store[Len(store)].timestamp

\* C17: main enters a collection phase only from the top of the loop, by a
\* step that waits exactly the refresh interval and pushes no ticker,
\* fetches no price, writes no row and raises no alert; this holds for the
\* first collection after startup (which starts at time refreshRate) and for
\* a collection that follows the except clause; a collection phase ends at
\* the top of the loop again.
C17_SleepBeforeEveryCollection ==
    /\ [][ (~Collecting /\ Collecting') =>
             /\ pc = "sleep"
             /\ pc' = "ticker"
             /\ now' = now + refreshRate
             /\ cycle' = cycle + 1
             /\ store' = store
             /\ alerts' = alerts
             /\ tickerIn' = tickerIn
             /\ fetchedIn' = fetchedIn
             /\ stats'.fetches = stats.fetches ]_vars
    /\ [][ (Collecting /\ ~Collecting') => pc' = "sleep" ]_vars
    /\ [][ (store' # store \/ alerts' # alerts \/ stats'.fetches # stats.fetches
              \/ tickerIn' # tickerIn) => Collecting ]_vars
    /\ []((cycle = 1 /\ Collecting) => now = refreshRate)
    /\ [](cycle >= 1 => stats.collectAt >= cycle * refreshRate)

\* The first collection has begun, a full default interval after startup.
C17_Witness ==
    /\ pc = "ticker"
    /\ cycle = 1
    /\ refreshRate = DefaultRefreshRate
    /\ now = DefaultRefreshRate

FailedLogin(req) ==
    /\ req.route = "login"
    /\ req.method = "POST"
    /\ <<req.username, req.password>> \notin users

\* C19: the dashboard page (with the market data) is the response to a
\* dashboard request exactly when the session holds a username, otherwise
\* the response is the redirect to login; the session's username changes
\* only by a logout, which clears it, or by a login POST whose username and
\* password are those of a stored user, which sets it to that username; a
\* failed login leaves the session as it is.
C19_DashboardSessionGate ==
    /\ [](lastReq.route = "dashboard" =>
            /\ (lastResp.target = "dashboard.html") <=> (session # NoUser)
            /\ session = NoUser => lastResp = Response("redirect", "login", <<>>)
            /\ session # NoUser => lastResp = Response("page", "dashboard.html", store))
    /\ [](lastResp.target = "dashboard.html" => session # NoUser)
    /\ [](session # NoUser => \E p \in Passwords : <<session, p>> \in users)
    /\ [][ session' # session =>
              \/ (lastReq'.route = "logout" /\ session' = NoUser)
              \/ /\ lastReq'.route = "login"
                 /\ lastReq'.method = "POST"
                 /\ <<lastReq'.username, lastReq'.password>> \in users
                 /\ session' = lastReq'.username ]_vars
    /\ [][ (lastReq' # lastReq /\ FailedLogin(lastReq')) =>
              (session' = session
               /\ lastResp' = Response("text", "Invalid credentials", <<>>)) ]_vars
    /\ [][ (lastReq'.route = "logout") => session' = NoUser ]_vars

\* A logged-in client has been served the dashboard.
C19_Witness ==
    /\ lastReq.route = "dashboard"
    /\ lastResp.target = "dashboard.html"
    /\ session \in Usernames

====
